---- MODULE Spec2Model ----
(***************************************************************************)
(* Model of client/src/Data/data.js: the evaluation of the module's nine   *)
(* const declarations and of its default export, and the consumers that    *)
(* import the exported binding and read its fields.                        *)
(*                                                                         *)
(* A JavaScript object literal is a TLA+ record, an array literal is a     *)
(* sequence (array index i is sequence index i + 1), a string literal is a *)
(* string.  The typographic apostrophe of line 63 is written ' because the *)
(* TLA+ lexer has no such character; every other character is as in the    *)
(* source.                                                                 *)
(***************************************************************************)
EXTENDS Integers, Sequences, FiniteSets, TLC

VARIABLES pc, scope, exports, retrieved, view

vars == <<pc, scope, exports, retrieved, view>>

(* Bounds of the model. *)
NumConsumers == 2
MaxRetrievals == 2

Consumers == 1..NumConsumers

(***************************************************************************)
(* The literals of the source, in source order.                            *)
(***************************************************************************)
HEADER == "SimS - Sicherheit im Supermarkt"

(* Variants of NAVBAR_DATA: an id typed twice, a url typed twice, the two  *)
(* entries in the other order.                                             *)
NAVBAR_DATA_DuplicateId ==
  << [id |-> 1, url |-> "/", label |-> "Home"],
     [id |-> 1, url |-> "/add-location", label |-> "Daten eintragen"] >>

NAVBAR_DATA_SameUrl ==
  << [id |-> 1, url |-> "/", label |-> "Home"],
     [id |-> 2, url |-> "/", label |-> "Daten eintragen"] >>

NAVBAR_DATA_Reversed ==
  << [id |-> 2, url |-> "/add-location", label |-> "Daten eintragen"],
     [id |-> 1, url |-> "/", label |-> "Home"] >>

NAVBAR_DATA ==
  << [id |-> 1, url |-> "/", label |-> "Home"],
     [id |-> 2, url |-> "/add-location", label |-> "Daten eintragen"] >>

(* Variant of BANNER_DATA: the HEADING property left out. *)
BANNER_DATA_NoHeading ==
  [ DECRIPTION |-> "Prüfe mit nur einem Klick, wie der aktuelle Andrang und die Verfügbarkeit von deinem Supermarkt ist.",
    TUTORIAL_URL |-> "https://www.thinkwithgoogle.com/intl/en-gb/marketing-resources/programmatic/google-digital-academy/",
    WATCH_TUTORIAL |-> "Watch Tutorials" ]

BANNER_DATA ==
  [ HEADING |-> "Bestands-Tracker",
    DECRIPTION |-> "Prüfe mit nur einem Klick, wie der aktuelle Andrang und die Verfügbarkeit von deinem Supermarkt ist.",
    TUTORIAL_URL |-> "https://www.thinkwithgoogle.com/intl/en-gb/marketing-resources/programmatic/google-digital-academy/",
    WATCH_TUTORIAL |-> "Watch Tutorials" ]

SERVICE_DATA ==
  [ HEADING |-> "Our Services",
    ALL_SERVICES |-> "All Services",
    SERVICE_LIST |->
      << [ LABEL |-> "Search Engine Optimisation",
           DESCRIPTION |-> "To customise the content, technical functionality and scope of your website so that your pages show for a specific set of keyword at the top of a search engine list. In the end, the goal is to attract traffic to your website when they are searching for goods, services or business-related information.",
           URL |-> "images/service1.png" ],
         [ LABEL |-> "Content Marketing Strategy",
           DESCRIPTION |-> "It is tough but well worth the effort to create clever material that is not promotional in nature, but rather educates and inspires. It lets them see you as a reliable source of information by delivering content that is meaningful to your audience.",
           URL |-> "images/service2.png" ],
         [ LABEL |-> "Develop Social Media Strategy",
           DESCRIPTION |-> "Many People rely on social networks to discover, research, and educate themselves about a brand before engaging with that organization. The more your audience wants to engage with your content, the more likely it is that they will want to share it.",
           URL |-> "images/service3.png" ] >> ]

(* Variant of ABOUT_DATA: the last reason left out. *)
ABOUT_DATA_SevenReasons ==
  [ HEADING |-> "Why choose us?",
    TITLE |-> "Why we're different",
    IMAGE_URL |-> "images/network.png",
    WHY_CHOOSE_US_LIST |->
      << "We provides Cost-Effective Digital Marketing than Others.",
         "High customer statisfaction and experience.",
         "Marketing efficiency and quick time to value.",
         "Clear & transparent fee structure.",
         "We provides Marketing automation which is an integral platform that ties all of your digital marketing together.",
         "A strong desire to establish long lasting business partnerships.",
         "Provide digital marketing to mobile consumer." >> ]

ABOUT_DATA ==
  [ HEADING |-> "Why choose us?",
    TITLE |-> "Why we're different",
    IMAGE_URL |-> "images/network.png",
    WHY_CHOOSE_US_LIST |->
      << "We provides Cost-Effective Digital Marketing than Others.",
         "High customer statisfaction and experience.",
         "Marketing efficiency and quick time to value.",
         "Clear & transparent fee structure.",
         "We provides Marketing automation which is an integral platform that ties all of your digital marketing together.",
         "A strong desire to establish long lasting business partnerships.",
         "Provide digital marketing to mobile consumer.",
         "We provides wide range to services in reasonable prices" >> ]

TESTIMONIAL_DATA ==
  [ HEADING |-> "What clients say?",
    TESTIMONIAL_LIST |->
      << [ DESCRIPTION |-> "Nixalar has made a huge difference to our business with his good work and knowledge of SEO and business to business marketing techniques. Our search engine rankings are better than ever and we are getting more people contacting us thanks to Jomer's knowledge and hard work.",
           IMAGE_URL |-> "images/user1.jpg",
           NAME |-> "Julia hawkins",
           DESIGNATION |-> "Co-founder at ABC" ],
         [ DESCRIPTION |-> "Nixalar and his team have provided us with a comprehensive, fast and well planned digital marketing strategy that has yielded great results in terms of content, SEO, Social Media. His team are a pleasure to work with, as well as being fast to respond and adapt to the needs of your brand.",
           IMAGE_URL |-> "images/user2.jpg",
           NAME |-> "John Smith",
           DESIGNATION |-> "Co-founder at xyz" ] >> ]

(* Variant of SOCIAL_DATA: the first icon given by an absolute URL. *)
SOCIAL_DATA_AbsoluteIcon ==
  [ HEADING |-> "Find us on social media",
    IMAGES_LIST |->
      << "https://cdn.example.com/images/facebook-icon.png",
         "images/instagram-icon.png",
         "images/whatsapp-icon.png",
         "images/twitter-icon.png",
         "images/linkedin-icon.png",
         "images/snapchat-icon.png" >> ]

SOCIAL_DATA ==
  [ HEADING |-> "Find us on social media",
    IMAGES_LIST |->
      << "images/facebook-icon.png",
         "images/instagram-icon.png",
         "images/whatsapp-icon.png",
         "images/twitter-icon.png",
         "images/linkedin-icon.png",
         "images/snapchat-icon.png" >> ]

DATA_ENTRY ==
  [ GET_LOCATION |-> "Momentanen Standort abfragen",
    GOODS_UNAVAILABLE |-> "Welche Waren sind ausverkauft?",
    CROWDEDNESS |-> "Wie voll war der Laden?",
    SUBMIT |-> "Daten absenden",
    SEARCH_STORE |-> "In welchem Laden warst du?" ]

(* The object literal of lines 98-107: eight shorthand properties, each    *)
(* taking the value the binding of that name has in the module scope s.    *)
MOCK_DATA(s) ==
  [ HEADER |-> s.HEADER,
    NAVBAR_DATA |-> s.NAVBAR_DATA,
    BANNER_DATA |-> s.BANNER_DATA,
    SERVICE_DATA |-> s.SERVICE_DATA,
    ABOUT_DATA |-> s.ABOUT_DATA,
    TESTIMONIAL_DATA |-> s.TESTIMONIAL_DATA,
    SOCIAL_DATA |-> s.SOCIAL_DATA,
    DATA_ENTRY |-> s.DATA_ENTRY ]

(***************************************************************************)
(* Module evaluation.  The statements run top to bottom; pc is the index   *)
(* of the next one.  A const binding is in its temporal dead zone (absent  *)
(* from scope) until its declaration has run; the default export binding   *)
(* (absent from exports) until the export statement has run.               *)
(***************************************************************************)
Statements ==
  << "HEADER", "NAVBAR_DATA", "BANNER_DATA", "SERVICE_DATA", "ABOUT_DATA",
     "TESTIMONIAL_DATA", "SOCIAL_DATA", "DATA_ENTRY", "MOCK_DATA", "export" >>

Done == Len(Statements) + 1

EmptyScope == [n \in {} |-> 0]

Bind(s, name, value) == [n \in DOMAIN s \cup {name} |-> IF n = name THEN value ELSE s[n]]

Declare(name, value) ==
  /\ pc <= Len(Statements)
  /\ Statements[pc] = name
  /\ name \notin DOMAIN scope
  /\ scope' = Bind(scope, name, value)
  /\ pc' = pc + 1
  /\ UNCHANGED <<exports, retrieved, view>>

DeclHEADER == Declare("HEADER", HEADER)
DeclNAVBAR_DATA == Declare("NAVBAR_DATA", NAVBAR_DATA)
DeclBANNER_DATA == Declare("BANNER_DATA", BANNER_DATA)
DeclSERVICE_DATA == Declare("SERVICE_DATA", SERVICE_DATA)
DeclABOUT_DATA == Declare("ABOUT_DATA", ABOUT_DATA)
DeclTESTIMONIAL_DATA == Declare("TESTIMONIAL_DATA", TESTIMONIAL_DATA)
DeclSOCIAL_DATA == Declare("SOCIAL_DATA", SOCIAL_DATA)
DeclDATA_ENTRY == Declare("DATA_ENTRY", DATA_ENTRY)
DeclMOCK_DATA == Declare("MOCK_DATA", MOCK_DATA(scope))

(* Variants of the export statement: one that changes the bundle while    *)
(* exporting it (export default Object.assign(MOCK_DATA, {HEADER: ""})),   *)
(* one that exports the bundle under its name instead of as the default.   *)
ExportDefaultMutating ==
  /\ pc <= Len(Statements)
  /\ Statements[pc] = "export"
  /\ "MOCK_DATA" \in DOMAIN scope
  /\ scope' = [scope EXCEPT !.MOCK_DATA.HEADER = ""]
  /\ exports' = Bind(exports, "default", scope'.MOCK_DATA)
  /\ pc' = pc + 1
  /\ UNCHANGED <<retrieved, view>>

ExportNamed ==
  /\ pc <= Len(Statements)
  /\ Statements[pc] = "export"
  /\ "MOCK_DATA" \in DOMAIN scope
  /\ exports' = Bind(exports, "MOCK_DATA", scope.MOCK_DATA)
  /\ pc' = pc + 1
  /\ UNCHANGED <<scope, retrieved, view>>

ExportDefault ==
  /\ pc <= Len(Statements)
  /\ Statements[pc] = "export"
  /\ "MOCK_DATA" \in DOMAIN scope
  /\ exports' = Bind(exports, "default", scope.MOCK_DATA)
  /\ pc' = pc + 1
  /\ UNCHANGED <<scope, retrieved, view>>

(***************************************************************************)
(* Consumers.  data.js imports nothing and calls nothing, so no consumer   *)
(* code runs before its evaluation has finished.  A retrieval reads the    *)
(* default export binding: the bound value, or a ReferenceError when the   *)
(* binding is still uninitialised.  Each consumer keeps its last           *)
(* MaxRetrievals results.                                                  *)
(***************************************************************************)
ImportDefault(e) ==
  IF "default" \in DOMAIN e
    THEN [ok |-> TRUE, value |-> e.default]
    ELSE [ok |-> FALSE, error |-> "ReferenceError"]

Remember(h, r) == Append(IF Len(h) >= MaxRetrievals THEN Tail(h) ELSE h, r)

(* Variants of the retrieval: one that hands the bundle out and removes    *)
(* the first navigation entry of the shared object                         *)
(* (MOCK_DATA.NAVBAR_DATA.shift()), one that may run while the module is   *)
(* still being evaluated.                                                  *)
DropFirst(a) == IF a = << >> THEN a ELSE Tail(a)

RetrieveAndShift(c) ==
  /\ pc = Done
  /\ retrieved' = [retrieved EXCEPT ![c] = Remember(@, ImportDefault(exports))]
  /\ exports' = [n \in DOMAIN exports |->
                   [exports[n] EXCEPT !.NAVBAR_DATA = DropFirst(@)]]
  /\ scope' = [scope EXCEPT !.MOCK_DATA.NAVBAR_DATA = DropFirst(@),
                            !.NAVBAR_DATA = DropFirst(@)]
  /\ UNCHANGED <<pc, view>>

RetrieveDuringEvaluation(c) ==
  /\ retrieved' = [retrieved EXCEPT ![c] = Remember(@, ImportDefault(exports))]
  /\ UNCHANGED <<pc, scope, exports, view>>

Retrieve(c) ==
  /\ pc = Done
  /\ retrieved' = [retrieved EXCEPT ![c] = Remember(@, ImportDefault(exports))]
  /\ UNCHANGED <<pc, scope, exports, view>>

(* The property names of the bundle (lines 99-106). *)
FieldNames ==
  { "HEADER", "NAVBAR_DATA", "BANNER_DATA", "SERVICE_DATA", "ABOUT_DATA",
    "TESTIMONIAL_DATA", "SOCIAL_DATA", "DATA_ENTRY" }

(* A consumer reads one field of the bundle it retrieved last, by name. *)
Read(c, k) ==
  /\ retrieved[c] # << >>
  /\ LET r == retrieved[c][Len(retrieved[c])]
     IN  /\ r.ok
         /\ k \in DOMAIN r.value
         /\ view' = [view EXCEPT ![c] = << [key |-> k, val |-> r.value[k]] >>]
  /\ UNCHANGED <<pc, scope, exports, retrieved>>

Init ==
  /\ pc = 1
  /\ scope = EmptyScope
  /\ exports = EmptyScope
  /\ retrieved = [c \in Consumers |-> << >>]
  /\ view = [c \in Consumers |-> << >>]

Next ==
  \/ DeclHEADER
  \/ DeclNAVBAR_DATA
  \/ DeclBANNER_DATA
  \/ DeclSERVICE_DATA
  \/ DeclABOUT_DATA
  \/ DeclTESTIMONIAL_DATA
  \/ DeclSOCIAL_DATA
  \/ DeclDATA_ENTRY
  \/ DeclMOCK_DATA
  \/ ExportDefault
  \/ \E c \in Consumers : Retrieve(c)
  \/ \E c \in Consumers, k \in FieldNames : Read(c, k)

Spec == Init /\ [][Next]_vars

(***************************************************************************)
(* What the properties below speak about.                                  *)
(***************************************************************************)
Elements(a) == { a[i] : i \in 1..Len(a) }

(* Every retrieval result a consumer holds. *)
Results == UNION { Elements(retrieved[c]) : c \in Consumers }

(* Every bundle value there is: the exported one and the retrieved ones. *)
Exported == IF "default" \in DOMAIN exports THEN {exports.default} ELSE {}

Bundles == Exported \cup { r.value : r \in { x \in Results : x.ok } }

(* JavaScript's a[i], for an index inside the array. *)
Index(a, i) == a[i + 1]

Loaded == pc = Done

SomeoneRetrieved == \E c \in Consumers : retrieved[c] # << >>

SomeoneRead(k) == \E c \in Consumers : view[c] # << >> /\ view[c][1].key = k

(* The value each binding is constructed with. *)
BundleLiteral ==
  [ HEADER |-> HEADER,
    NAVBAR_DATA |-> NAVBAR_DATA,
    BANNER_DATA |-> BANNER_DATA,
    SERVICE_DATA |-> SERVICE_DATA,
    ABOUT_DATA |-> ABOUT_DATA,
    TESTIMONIAL_DATA |-> TESTIMONIAL_DATA,
    SOCIAL_DATA |-> SOCIAL_DATA,
    DATA_ENTRY |-> DATA_ENTRY ]

ConstructedWith(n) ==
  CASE n = "MOCK_DATA" -> BundleLiteral
    [] OTHER -> BundleLiteral[n]

C2_RetrievalIdempotent ==
  \A r1 \in Results, r2 \in Results : r1 = r2

(* One consumer holds two results, retrieved at different times. *)
C2_Witness ==
  \E c \in Consumers :
    /\ Len(retrieved[c]) >= 2
    /\ retrieved[c][1].ok
    /\ retrieved[c][1].value = retrieved[c][2].value

(***************************************************************************)
(* C3.  Unsynchronised concurrent reads are safe: once the module is       *)
(* loaded every consumer can retrieve, and every consumer that has         *)
(* retrieved can read every field, whatever the others are doing; every    *)
(* value a consumer observes is the fully constructed bundle (all eight    *)
(* fields) or a field of it, the same for every consumer.                  *)
(***************************************************************************)
C3_SafeConcurrentReads ==
  /\ Loaded => \A c \in Consumers : ENABLED Retrieve(c)
  /\ \A c \in Consumers :
       retrieved[c] # << >> => \A k \in FieldNames : ENABLED Read(c, k)
  /\ \A r \in Results :
       /\ r.ok
       /\ DOMAIN r.value = FieldNames
       /\ Exported = {r.value}
  /\ \A c \in Consumers :
       view[c] # << >> => \A b \in Exported : view[c][1].val = b[view[c][1].key]

(* Two consumers have interleaved: both retrieved, both read, different    *)
(* fields.                                                                 *)
C3_Witness ==
  \E c \in Consumers, d \in Consumers :
    /\ c # d
    /\ retrieved[c] # << >> /\ retrieved[d] # << >>
    /\ view[c] # << >> /\ view[d] # << >>
    /\ view[c][1].key # view[d][1].key

(***************************************************************************)
(* C4.  The ids of the navigation entries of a bundle are pairwise unique. *)
(***************************************************************************)
C4_NavIdsUnique ==
  \A b \in Bundles :
    \A i \in 1..Len(b.NAVBAR_DATA), j \in 1..Len(b.NAVBAR_DATA) :
      i # j => b.NAVBAR_DATA[i].id # b.NAVBAR_DATA[j].id

(* A consumer has read the navigation entries, and there are two of them. *)
C4_Witness ==
  \E c \in Consumers :
    /\ view[c] # << >>
    /\ view[c][1].key = "NAVBAR_DATA"
    /\ Len(view[c][1].val) >= 2

(***************************************************************************)
(* C5.  Every field of the data model is present in a bundle.  The data    *)
(* model's names stand for these properties of the source: description of  *)
(* the banner is DECRIPTION, watch_label WATCH_TUTORIAL, all_label         *)
(* ALL_SERVICES, items SERVICE_LIST / TESTIMONIAL_LIST, image_path URL /   *)
(* IMAGE_URL, reasons WHY_CHOOSE_US_LIST, icon_paths IMAGES_LIST.  A       *)
(* property that is absent reads as undefined; no literal of the source is *)
(* null.                                                                   *)
(***************************************************************************)
C5_AllFieldsPresent ==
  \A b \in Bundles :
    /\ FieldNames \subseteq DOMAIN b
    /\ \A e \in Elements(b.NAVBAR_DATA) : {"id", "url", "label"} \subseteq DOMAIN e
    /\ {"HEADING", "DECRIPTION", "TUTORIAL_URL", "WATCH_TUTORIAL"}
         \subseteq DOMAIN b.BANNER_DATA
    /\ {"HEADING", "ALL_SERVICES", "SERVICE_LIST"} \subseteq DOMAIN b.SERVICE_DATA
    /\ \A e \in Elements(b.SERVICE_DATA.SERVICE_LIST) :
         {"LABEL", "DESCRIPTION", "URL"} \subseteq DOMAIN e
    /\ {"HEADING", "TITLE", "IMAGE_URL", "WHY_CHOOSE_US_LIST"}
         \subseteq DOMAIN b.ABOUT_DATA
    /\ {"HEADING", "TESTIMONIAL_LIST"} \subseteq DOMAIN b.TESTIMONIAL_DATA
    /\ \A e \in Elements(b.TESTIMONIAL_DATA.TESTIMONIAL_LIST) :
         {"DESCRIPTION", "IMAGE_URL", "NAME", "DESIGNATION"} \subseteq DOMAIN e
    /\ {"HEADING", "IMAGES_LIST"} \subseteq DOMAIN b.SOCIAL_DATA
    /\ {"GET_LOCATION", "GOODS_UNAVAILABLE", "CROWDEDNESS", "SUBMIT", "SEARCH_STORE"}
         \subseteq DOMAIN b.DATA_ENTRY

(* A consumer has read the banner of a retrieved bundle. *)
C5_Witness ==
  \E c \in Consumers :
    /\ view[c] # << >>
    /\ view[c][1].key = "BANNER_DATA"
    /\ "DECRIPTION" \in DOMAIN view[c][1].val

(***************************************************************************)
(* C6.  The lists of a bundle have the lengths of the literal content: 3   *)
(* services, 2 testimonials, 8 reasons, 6 social icon paths.               *)
(***************************************************************************)
C6_ListLengths ==
  \A b \in Bundles :
    /\ Len(b.SERVICE_DATA.SERVICE_LIST) = 3
    /\ Len(b.TESTIMONIAL_DATA.TESTIMONIAL_LIST) = 2
    /\ Len(b.ABOUT_DATA.WHY_CHOOSE_US_LIST) = 8
    /\ Len(b.SOCIAL_DATA.IMAGES_LIST) = 6

(* A consumer has read the about section, with its eight reasons. *)
C6_Witness ==
  \E c \in Consumers :
    /\ view[c] # << >>
    /\ view[c][1].key = "ABOUT_DATA"
    /\ Len(view[c][1].val.WHY_CHOOSE_US_LIST) = 8

(***************************************************************************)
(* C7.  End to end: of a retrieved bundle, navigation entry 0 is           *)
(* {id: 1, url: "/", label: "Home"} and the submit label of the data-entry *)
(* labels is "Daten absenden".                                             *)
(***************************************************************************)
C7_EndToEnd ==
  \A r \in Results :
    /\ r.ok
    /\ Index(r.value.NAVBAR_DATA, 0) = [id |-> 1, url |-> "/", label |-> "Home"]
    /\ r.value.DATA_ENTRY.SUBMIT = "Daten absenden"

(* One consumer has projected the navigation entries, another the          *)
(* data-entry labels.                                                      *)
C7_Witness ==
  \E c \in Consumers, d \in Consumers :
    /\ view[c] # << >> /\ view[d] # << >>
    /\ view[c][1].key = "NAVBAR_DATA"
    /\ Index(view[c][1].val, 0).label = "Home"
    /\ view[d][1].key = "DATA_ENTRY"
    /\ view[d][1].val.SUBMIT = "Daten absenden"

(***************************************************************************)
(* C8.  Retrieving has no error outcome and no side effect: a step in      *)
(* which a consumer's retrieval results change leaves the module's         *)
(* position, its bindings, the export, every view and every other          *)
(* consumer's results as they were, and the new result is the whole        *)
(* exported bundle, not an error.                                          *)
(***************************************************************************)
C8_RetrieveIsPure ==
  [][\A c \in Consumers :
       retrieved'[c] # retrieved[c] =>
         /\ UNCHANGED <<pc, scope, exports, view>>
         /\ \A d \in Consumers \ {c} : retrieved'[d] = retrieved[d]
         /\ LET r == retrieved'[c][Len(retrieved'[c])]
            IN  /\ r.ok
                /\ Exported = {r.value}
                /\ DOMAIN r.value = FieldNames]_vars

(* A retrieval has happened, and the module is as it was when loaded. *)
C8_Witness ==
  /\ SomeoneRetrieved
  /\ \A r \in Results : r.ok
  /\ pc = Done
  /\ DOMAIN exports = {"default"}

(***************************************************************************)
(* URL references (RFC 3986).  A reference carries a scheme when it starts *)
(* with a letter followed by letters, digits, "+", "-" or "." up to a      *)
(* colon; it carries a host when "//" follows the scheme or starts the     *)
(* reference.                                                              *)
(***************************************************************************)
Char(s, i) == SubSeq(s, i, i)

Alpha ==
  { "a", "b", "c", "d", "e", "f", "g", "h", "i", "j", "k", "l", "m",
    "n", "o", "p", "q", "r", "s", "t", "u", "v", "w", "x", "y", "z",
    "A", "B", "C", "D", "E", "F", "G", "H", "I", "J", "K", "L", "M",
    "N", "O", "P", "Q", "R", "S", "T", "U", "V", "W", "X", "Y", "Z" }

SchemeChar ==
  Alpha \cup { "0", "1", "2", "3", "4", "5", "6", "7", "8", "9", "+", "-", "." }

(* The position of the colon that ends the scheme of s, or 0. *)
SchemeEnd(s) ==
  LET ends == { i \in 2..Len(s) :
                  /\ Char(s, i) = ":"
                  /\ Char(s, 1) \in Alpha
                  /\ \A j \in 2..(i - 1) : Char(s, j) \in SchemeChar }
  IN  IF ends = {} THEN 0 ELSE CHOOSE i \in ends : \A j \in ends : i <= j

HasScheme(s) == SchemeEnd(s) # 0

HasHost(s) ==
  LET from == SchemeEnd(s) + 1
  IN  /\ Len(s) >= from + 2
      /\ SubSeq(s, from, from + 1) = "//"
      /\ Char(s, from + 2) # "/"

IsRelativePath(s) == ~HasScheme(s) /\ ~HasHost(s)

(* The leaf strings of a bundle that refer to an image. *)
AssetPaths(b) ==
  { e.URL : e \in Elements(b.SERVICE_DATA.SERVICE_LIST) }
    \cup { b.ABOUT_DATA.IMAGE_URL }
    \cup { e.IMAGE_URL : e \in Elements(b.TESTIMONIAL_DATA.TESTIMONIAL_LIST) }
    \cup Elements(b.SOCIAL_DATA.IMAGES_LIST)

(* The leaf strings of a bundle that refer to a resource. *)
ResourceRefs(b) == AssetPaths(b) \cup { b.BANNER_DATA.TUTORIAL_URL }

(***************************************************************************)
(* C9, as claimed: every leaf string of a bundle that refers to a resource *)
(* (service URL, about and testimonial IMAGE_URL, social IMAGES_LIST       *)
(* entries, banner TUTORIAL_URL) is a relative path, with no scheme and no *)
(* host.                                                                   *)
(***************************************************************************)
C9_AllRefsRelative ==
  \A b \in Bundles : \A s \in ResourceRefs(b) : IsRelativePath(s)

(***************************************************************************)
(* C9, amended: every leaf string of a bundle that refers to an image      *)
(* (service URL, about and testimonial IMAGE_URL, social IMAGES_LIST       *)
(* entries) is a relative path, with no scheme and no host; the banner     *)
(* TUTORIAL_URL is an absolute URL, with the scheme https and a host.      *)
(***************************************************************************)
C9_AssetPathsRelative ==
  \A b \in Bundles :
    /\ \A s \in AssetPaths(b) : IsRelativePath(s)
    /\ LET t == b.BANNER_DATA.TUTORIAL_URL
       IN  /\ SchemeEnd(t) = 6
           /\ SubSeq(t, 1, 5) = "https"
           /\ HasHost(t)

(* A consumer has read the social section and another the banner. *)
C9_Witness ==
  \E c \in Consumers, d \in Consumers :
    /\ view[c] # << >> /\ view[d] # << >>
    /\ view[c][1].key = "SOCIAL_DATA"
    /\ Len(view[c][1].val.IMAGES_LIST) = 6
    /\ view[d][1].key = "BANNER_DATA"
    /\ HasScheme(view[d][1].val.TUTORIAL_URL)

(***************************************************************************)
(* C10.  The urls of the navigation entries of a bundle are pairwise       *)
(* distinct.                                                               *)
(***************************************************************************)
C10_NavUrlsDistinct ==
  \A b \in Bundles :
    \A i \in 1..Len(b.NAVBAR_DATA), j \in 1..Len(b.NAVBAR_DATA) :
      i # j => b.NAVBAR_DATA[i].url # b.NAVBAR_DATA[j].url

(* A consumer has read the navigation entries; the first is "/", the       *)
(* second another route.                                                   *)
C10_Witness ==
  \E c \in Consumers :
    /\ view[c] # << >>
    /\ view[c][1].key = "NAVBAR_DATA"
    /\ Index(view[c][1].val, 0).url = "/"
    /\ Index(view[c][1].val, 1).url = "/add-location"

====
